---- MODULE Spec2Model ----
(***************************************************************************)
(* A model of the COVID-19 analytics pipeline: data_pipeline.py (daily     *)
(* deltas, moving average, growth rate), nlp_module.py (narrative report), *)
(* xai_module.py (residual plot through matplotlib's pyplot state machine) *)
(* and dashboard.py (the Streamlit script that chains the stages).         *)
(*                                                                         *)
(* Python values are modelled as follows.                                  *)
(*   list            a sequence                                            *)
(*   dict            a sequence of <<key, value>> pairs with distinct keys *)
(*                   (a dict keeps insertion order)                        *)
(*   None / a value  the sequences <<>> and <<v>>                          *)
(*   float           an exact fraction <<num, den>>, den # 0; NaN is the   *)
(*                   absent optional <<>>. Rounding error of IEEE doubles  *)
(*                   is not modelled: with the small integers used here    *)
(*                   two quotients differ as doubles iff they differ as    *)
(*                   fractions.                                            *)
(*   call outcome    [kind |-> "return", exc |-> "", value |-> v] or       *)
(*                   [kind |-> "raise", exc |-> name, value |-> <<>>]      *)
(***************************************************************************)
EXTENDS Integers, Sequences, FiniteSets, TLC

VARIABLES
    call,       \* the invocation of a library function: its name and arguments
    ret,        \* its outcome, Pending until the function has run
    pcx,        \* xai_module: the statement each get_arima_explanation call is at
    model_fit,  \* xai_module: the fitted model each call was given
    Gcf,        \* pyplot's open figures, the active one last
    figure,     \* the Figure object each call created, by call
    local,      \* xai_module: each call's local variables
    dpc,        \* dashboard: the section the script is at
    page,       \* dashboard: the elements written to the page so far
    script      \* dashboard: the script's variables

libVars == <<call, ret>>
xaiVars == <<pcx, model_fit, Gcf, figure, local>>
dashVars == <<dpc, page, script>>
vars == <<call, ret, pcx, model_fit, Gcf, figure, local, dpc, page, script>>

---------------------------------------------------------------------------
(* Bounds of the explored inputs. *)

MaxDates == 3
MaxCount == 2
MaxLen == 3
MaxVal == 2
MaxWindow == 4
MaxNarrLen == 2
MaxNarrVal == 2

---------------------------------------------------------------------------
(* Python helpers. *)

Pending == [kind |-> "pending", exc |-> "", value |-> <<>>]
Return(v) == [kind |-> "return", exc |-> "", value |-> v]
Raise(e) == [kind |-> "raise", exc |-> e, value |-> <<>>]

\* No library call is being followed.
NoCall == [fn |-> "", a |-> <<>>, b |-> 0]
LibIdle == call = NoCall /\ ret = Pending

\* The dashboard script before it has run.
NoScript ==
    [country |-> "", cases_timeline |-> <<>>, daily_cases_list |-> <<>>,
     forecast_values |-> <<>>, model_fit |-> <<>>, report |-> <<>>, e |-> <<>>]

DashIdle == dpc = "idle" /\ page = <<>> /\ script = NoScript

None == <<>>
Some(v) == <<v>>

Min2(a, b) == IF a < b THEN a ELSE b
Max2(a, b) == IF a > b THEN a ELSE b

\* s[start:stop] for a list s: negative indices count from the end, indices
\* are clamped to the list, and an empty range gives the empty list.
SliceIndex(k, n) == IF k < 0 THEN Max2(k + n, 0) ELSE Min2(k, n)
Slice(s, start, stop) ==
    LET a == SliceIndex(start, Len(s))
        b == SliceIndex(stop, Len(s))
    IN  IF a < b THEN SubSeq(s, a + 1, b) ELSE <<>>

\* sum(s), the built-in: a left fold from 0.
RECURSIVE sum(_)
sum(s) == IF s = <<>> THEN 0 ELSE sum(SubSeq(s, 1, Len(s) - 1)) + s[Len(s)]

\* Fractions standing for floats.
Frac(n, d) == <<n, d>>
FracAdd(x, y) == <<x[1] * y[2] + y[1] * x[2], x[2] * y[2]>>
FracEq(x, y) == x[1] * y[2] = y[1] * x[2]
\* x < y; the denominators' signs are normalised first.
FracSign(x) == IF x[2] < 0 THEN <<-x[1], -x[2]>> ELSE x
FracLt(x, y) == FracSign(x)[1] * FracSign(y)[2] < FracSign(y)[1] * FracSign(x)[2]

RECURSIVE FracSum(_)
FracSum(s) ==
    IF s = <<>> THEN Frac(0, 1)
    ELSE FracAdd(FracSum(SubSeq(s, 1, Len(s) - 1)), s[Len(s)])

\* A dict as a sequence of <<key, value>> pairs.
DictKeys(d) == [i \in 1..Len(d) |-> d[i][1]]
DictHas(d, k) == \E i \in 1..Len(d) : d[i][1] = k
DictGet(d, k) == d[CHOOSE i \in 1..Len(d) : d[i][1] = k][2]
\* d[k] = v: a new key is appended, an existing key keeps its position.
DictSet(d, k, v) ==
    IF DictHas(d, k)
    THEN [i \in 1..Len(d) |-> IF d[i][1] = k THEN <<k, v>> ELSE d[i]]
    ELSE Append(d, <<k, v>>)

---------------------------------------------------------------------------
(* data_pipeline.py: compute_daily_new_cases *)

\* A date label "m/d/y" is the triple <<m, d, y>>, y the two-digit year.
\* datetime.strptime(d, "%m/%d/%y"): %y maps 69..99 to 1969..1999 and 0..68
\* to 2000..2068. The datetime is <<year, month, day>>.
strptime_mut(label) == <<label[3], label[1], label[2]>>
strptime(label) ==
    <<IF label[3] >= 69 THEN 1900 + label[3] ELSE 2000 + label[3],
      label[1], label[2]>>

\* datetime comparison: by year, then month, then day.
DatetimeLt(a, b) ==
    \/ a[1] < b[1]
    \/ a[1] = b[1] /\ a[2] < b[2]
    \/ a[1] = b[1] /\ a[2] = b[2] /\ a[3] < b[3]

\* sorted(keys, key=strptime): a stable sort, here by insertion; an element
\* goes after every element whose key is not greater than its own.
RECURSIVE SortedInsert(_, _)
SortedInsert(s, x) ==
    IF s = <<>> THEN <<x>>
    ELSE IF DatetimeLt(strptime(x), strptime(s[Len(s)]))
         THEN Append(SortedInsert(SubSeq(s, 1, Len(s) - 1), x), s[Len(s)])
         ELSE Append(s, x)

RECURSIVE sorted_dates(_)
sorted_dates(keys) ==
    IF keys = <<>> THEN <<>>
    ELSE SortedInsert(sorted_dates(SubSeq(keys, 1, Len(keys) - 1)), keys[Len(keys)])

\* previous_count = current_count, at the end of each iteration.
NextPrevious_mut(previous_count, current_count) ==
    IF previous_count = None THEN Some(current_count) ELSE previous_count
NextPrevious(previous_count, current_count) == Some(current_count)

\* The loop over sorted_dates from position i on (1-based).
RECURSIVE DailyLoop(_, _, _, _, _)
DailyLoop(cases_timeline, dates, i, previous_count, daily_new) ==
    IF i > Len(dates) THEN daily_new
    ELSE LET date == dates[i]
             current_count == DictGet(cases_timeline, date)
             entry == IF previous_count = None
                      THEN 0
                      ELSE current_count - previous_count[1]
         IN  DailyLoop(cases_timeline, dates, i + 1,
                       NextPrevious(previous_count, current_count),
                       DictSet(daily_new, date, entry))

compute_daily_new_cases(cases_timeline) ==
    Return(DailyLoop(cases_timeline, sorted_dates(DictKeys(cases_timeline)),
                     1, None, <<>>))

---------------------------------------------------------------------------
(* data_pipeline.py: compute_moving_average *)

\* if i < window - 1: not enough values yet.
InsufficientData_mut(i, window) == i < window
InsufficientData(i, window) == i < window - 1

\* The loop over range(len(data_list)) from i on (0-based, as in the code).
\* sum(window_values) / window raises ZeroDivisionError for window = 0.
RECURSIVE MovingAverageLoop(_, _, _, _)
MovingAverageLoop(data_list, window, i, moving_avg) ==
    IF i >= Len(data_list) THEN Return(moving_avg)
    ELSE IF InsufficientData(i, window)
         THEN MovingAverageLoop(data_list, window, i + 1, Append(moving_avg, None))
         ELSE LET window_values == Slice(data_list, i - window + 1, i + 1)
              IN  IF window = 0 THEN Raise("ZeroDivisionError")
                  ELSE MovingAverageLoop(data_list, window, i + 1,
                           Append(moving_avg, Some(Frac(sum(window_values), window))))

compute_moving_average(data_list, window) ==
    MovingAverageLoop(data_list, window, 0, <<>>)

---------------------------------------------------------------------------
(* data_pipeline.py: compute_average_growth_rate *)

\* if prev > 0: the pair is retained.
RetainPair_mut(prev) == prev # 0
RetainPair(prev) == prev > 0

\* The loop over range(1, len(daily_cases)) from i on (0-based).
RECURSIVE GrowthLoop(_, _, _)
GrowthLoop(daily_cases, i, growth_rates) ==
    IF i >= Len(daily_cases) THEN growth_rates
    ELSE LET prev == daily_cases[i]          \* daily_cases[i-1], 0-based
             curr == daily_cases[i + 1]      \* daily_cases[i], 0-based
         IN  IF RetainPair(prev)
             THEN GrowthLoop(daily_cases, i + 1,
                             Append(growth_rates, Frac(curr - prev, prev)))
             ELSE GrowthLoop(daily_cases, i + 1, growth_rates)

\* statistics.mean(xs) for a non-empty list: the exact sum over the length.
statistics_mean(xs) ==
    LET s == FracSum(xs) IN Frac(s[1], s[2] * Len(xs))

compute_average_growth_rate(daily_cases) ==
    LET growth_rates == GrowthLoop(daily_cases, 1, <<>>)
    IN  IF growth_rates # <<>>
        THEN Return(statistics_mean(growth_rates))
        ELSE Return(Frac(0, 1))

---------------------------------------------------------------------------
(* nlp_module.py: generate_narrative_report *)

\* pandas Series.mean(): NaN for an empty Series, else the sum over the length.
series_mean(forecast_values) ==
    IF forecast_values = <<>> THEN None
    ELSE Some(Frac(sum(forecast_values), Len(forecast_values)))

\* Float comparison; every comparison with NaN is False.
FloatLt(x, y) == x # None /\ y # None /\ FracLt(x[1], y[1])

\* f"{x:.0f}": round half to even; NaN prints as "nan" (None here). The
\* sign Python keeps on a negative value that rounds to zero ("-0") is not
\* kept.
FormatRound(x) ==
    IF x = None THEN None
    ELSE LET f == FracSign(x[1])
             q == f[1] \div f[2]
             r == f[1] % f[2]
         IN  Some(IF 2 * r < f[2] THEN q
                  ELSE IF 2 * r > f[2] THEN q + 1
                  ELSE IF q % 2 = 0 THEN q ELSE q + 1)

\* if forecast_avg < avg_daily_cases ... elif forecast_avg > ... else ...
Trend_mut(forecast_avg, avg_daily_cases) ==
    IF ~FloatLt(avg_daily_cases, forecast_avg) THEN "decreasing"
    ELSE "increasing"
Trend(forecast_avg, avg_daily_cases) ==
    IF FloatLt(forecast_avg, avg_daily_cases) THEN "decreasing"
    ELSE IF FloatLt(avg_daily_cases, forecast_avg) THEN "increasing"
    ELSE "stable"

\* The report's text, word by word; the two formatted averages are the
\* placeholders, their values are the report's fields.
ReportHead ==
    <<"Based", "on", "the", "historical", "data,", "the", "average", "daily",
      "new", "cases", "were", "approximately", "{avg_daily_cases:.0f}.",
      "The", "forecast", "for", "the", "upcoming", "period", "suggests", "an",
      "average", "of", "{forecast_avg:.0f}", "daily", "new", "cases,",
      "indicating", "a">>
RemarkIncreasing ==
    <<"This", "increase", "may", "require", "proactive", "measures", "to",
      "mitigate", "further", "spread.">>
RemarkDecreasing ==
    <<"The", "decreasing", "trend", "indicates", "that", "current",
      "measures", "might", "be", "effective.">>
RemarkStable ==
    <<"The", "situation", "appears", "to", "be", "stable", "at", "the",
      "moment.">>

ClosingRemark(trend) ==
    IF trend = "increasing" THEN RemarkIncreasing
    ELSE IF trend = "decreasing" THEN RemarkDecreasing
    ELSE RemarkStable

generate_narrative_report(daily_cases, forecast_values) ==
    IF Len(daily_cases) = 0 THEN Raise("ZeroDivisionError")
    ELSE LET avg_daily_cases == Some(Frac(sum(daily_cases), Len(daily_cases)))
             forecast_avg == series_mean(forecast_values)
             trend == Trend(forecast_avg, avg_daily_cases)
         IN  Return([text |-> ReportHead \o <<trend, "trend.">> \o ClosingRemark(trend),
                     avg_daily_cases |-> FormatRound(avg_daily_cases),
                     forecast_avg |-> FormatRound(forecast_avg)])

---------------------------------------------------------------------------
(* xai_module.py: get_arima_explanation, two calls in one process. Each      *)
(* statement of a call is one step; the calls share pyplot's figure          *)
(* registry (matplotlib's Gcf), whose last entry is the current figure.      *)

XaiCalls == {1, 2}

\* Residual series of the fitted models handed to the calls.
ResidualSeries == {<<1, -1>>, <<0, 2>>}

NoFigure ==
    [created |-> FALSE, lines |-> <<>>, title |-> "", xlabel |-> "",
     ylabel |-> "", tight |-> FALSE, tight_by |-> {}]
NoLocals ==
    [summary_text |-> None, residuals |-> None, fig |-> None, buf |-> None,
     residual_plot |-> None, result |-> None]

XaiIdle ==
    /\ pcx = [c \in XaiCalls |-> "idle"]
    /\ model_fit = [c \in XaiCalls |-> [summary |-> <<>>, resid |-> <<>>]]
    /\ Gcf = <<>>
    /\ figure = [c \in XaiCalls |-> NoFigure]
    /\ local = [c \in XaiCalls |-> NoLocals]

\* plt.figure(): the new figure's number is one more than the largest open.
NextNum ==
    IF Gcf = <<>> THEN 1
    ELSE 1 + (CHOOSE n \in {Gcf[i].num : i \in 1..Len(Gcf)} :
                 \A i \in 1..Len(Gcf) : Gcf[i].num <= n)

\* plt.gcf(): the figure made current last among the open ones. A call
\* uses it between its own plt.subplots and plt.close, so one is open.
gcf(c) == Gcf[Len(Gcf)].fig

\* Gcf.destroy of the manager that holds figure f.
RECURSIVE Destroy(_, _)
Destroy(stack, f) ==
    IF stack = <<>> THEN <<>>
    ELSE IF stack[Len(stack)].fig = f
         THEN Destroy(SubSeq(stack, 1, Len(stack) - 1), f)
         ELSE Append(Destroy(SubSeq(stack, 1, Len(stack) - 1), f), stack[Len(stack)])

\* The PNG written for a figure: what it shows at that moment.
Render(f) ==
    [fig |-> f, lines |-> figure[f].lines, title |-> figure[f].title,
     xlabel |-> figure[f].xlabel, ylabel |-> figure[f].ylabel,
     tight |-> figure[f].tight]

\* base64.b64encode(bytes).decode("utf-8")
b64encode(bytes) == [base64 |-> bytes]

Goto(c, label) == pcx' = [pcx EXCEPT ![c] = label]
SetLocal(c, name, v) == local' = [local EXCEPT ![c][name] = v]

\* summary_text = model_fit.summary().as_text()
XaiSummary(c) ==
    /\ pcx[c] = "summary"
    /\ SetLocal(c, "summary_text", Some(model_fit[c].summary))
    /\ Goto(c, "resid")
    /\ UNCHANGED <<libVars, dashVars, model_fit, Gcf, figure>>

\* residuals = model_fit.resid
XaiResid(c) ==
    /\ pcx[c] = "resid"
    /\ SetLocal(c, "residuals", Some(model_fit[c].resid))
    /\ Goto(c, "subplots")
    /\ UNCHANGED <<libVars, dashVars, model_fit, Gcf, figure>>

\* fig, ax = plt.subplots(figsize=(8, 4)): a new figure, made current.
XaiSubplots(c) ==
    /\ pcx[c] = "subplots"
    /\ figure' = [figure EXCEPT ![c] = [NoFigure EXCEPT !.created = TRUE]]
    /\ Gcf' = Append(Gcf, [num |-> NextNum, fig |-> c])
    /\ SetLocal(c, "fig", Some(c))
    /\ Goto(c, "plot")
    /\ UNCHANGED <<libVars, dashVars, model_fit>>

\* ax.plot(residuals, ...): on the call's own axes.
XaiPlot(c) ==
    /\ pcx[c] = "plot"
    /\ figure' = [figure EXCEPT ![local[c].fig[1]].lines =
                      Append(@, local[c].residuals[1])]
    /\ Goto(c, "set_labels")
    /\ UNCHANGED <<libVars, dashVars, model_fit, Gcf, local>>

\* ax.set_title(...); ax.set_xlabel(...); ax.set_ylabel(...)
XaiSetLabels(c) ==
    /\ pcx[c] = "set_labels"
    /\ figure' = [figure EXCEPT ![local[c].fig[1]] =
                      [@ EXCEPT !.title = "ARIMA Model Residuals",
                                !.xlabel = "Time", !.ylabel = "Residuals"]]
    /\ Goto(c, "tight_layout")
    /\ UNCHANGED <<libVars, dashVars, model_fit, Gcf, local>>

\* plt.tight_layout(): on the current figure.
XaiTightLayout(c) ==
    /\ pcx[c] = "tight_layout"
    /\ figure' = [figure EXCEPT ![gcf(c)] =
                      [@ EXCEPT !.tight = TRUE, !.tight_by = @ \cup {c}]]
    /\ Goto(c, "BytesIO")
    /\ UNCHANGED <<libVars, dashVars, model_fit, Gcf, local>>

\* buf = io.BytesIO()
XaiBytesIO(c) ==
    /\ pcx[c] = "BytesIO"
    /\ SetLocal(c, "buf", Some([data |-> <<>>, pos |-> 0]))
    /\ Goto(c, "savefig")
    /\ UNCHANGED <<libVars, dashVars, model_fit, Gcf, figure>>

\* plt.savefig(buf, format="png"): the current figure, written to buf.
XaiSavefig(c) ==
    /\ pcx[c] = "savefig"
    /\ SetLocal(c, "buf", Some([data |-> <<Render(gcf(c))>>, pos |-> 1]))
    /\ Goto(c, "close")
    /\ UNCHANGED <<libVars, dashVars, model_fit, Gcf, figure>>

\* plt.close(fig)
XaiClose(c) ==
    /\ pcx[c] = "close"
    /\ Gcf' = Destroy(Gcf, local[c].fig[1])
    /\ Goto(c, "seek")
    /\ UNCHANGED <<libVars, dashVars, model_fit, figure, local>>

\* buf.seek(0)
XaiSeek(c) ==
    /\ pcx[c] = "seek"
    /\ SetLocal(c, "buf", Some([local[c].buf[1] EXCEPT !.pos = 0]))
    /\ Goto(c, "b64encode")
    /\ UNCHANGED <<libVars, dashVars, model_fit, Gcf, figure>>

\* residual_plot = base64.b64encode(buf.read()).decode("utf-8")
XaiEncode(c) ==
    /\ pcx[c] = "b64encode"
    /\ LET buf == local[c].buf[1]
           read == SubSeq(buf.data, buf.pos + 1, Len(buf.data))
       IN  local' = [local EXCEPT
                        ![c].residual_plot = Some(b64encode(read)),
                        ![c].buf = Some([buf EXCEPT !.pos = Len(buf.data)])]
    /\ Goto(c, "return")
    /\ UNCHANGED <<libVars, dashVars, model_fit, Gcf, figure>>

\* return summary_text, residual_plot
XaiReturn(c) ==
    /\ pcx[c] = "return"
    /\ SetLocal(c, "result",
                Some(<<local[c].summary_text[1], local[c].residual_plot[1]>>))
    /\ Goto(c, "done")
    /\ UNCHANGED <<libVars, dashVars, model_fit, Gcf, figure>>

get_arima_explanation(c) ==
    \/ XaiSummary(c) \/ XaiResid(c) \/ XaiSubplots(c) \/ XaiPlot(c)
    \/ XaiSetLabels(c) \/ XaiTightLayout(c) \/ XaiBytesIO(c) \/ XaiSavefig(c)
    \/ XaiClose(c) \/ XaiSeek(c) \/ XaiEncode(c) \/ XaiReturn(c)

InitXai ==
    /\ LibIdle
    /\ DashIdle
    /\ pcx = [c \in XaiCalls |-> "summary"]
    /\ model_fit \in [XaiCalls -> [summary : {<<"SARIMAX Results">>}, resid : ResidualSeries]]
    /\ Gcf = <<>>
    /\ figure = [c \in XaiCalls |-> NoFigure]
    /\ local = [c \in XaiCalls |-> NoLocals]

NextXai == \E c \in XaiCalls : get_arima_explanation(c)

SpecXai == InitXai /\ [][NextXai]_vars

---------------------------------------------------------------------------
(* dashboard.py: one run of the Streamlit script. A section is one step.   *)
(* The calls that reach outside the script (HTTP requests, the ARIMA fit,   *)
(* the plot) return or raise; which, is the environment's choice.           *)

Countries == {"Germany", "USA", "France"}

\* timeline.cases of the historical response: empty, or cumulative counts.
DashTimelines ==
    {<<>>,
     << <<<<3, 10, 21>>, 1>>, <<<<12, 1, 20>>, 0>> >>,
     << <<<<12, 31, 99>>, 2>>, <<<<1, 1, 0>>, 2>>, <<<<12, 1, 20>>, 1>> >>}

\* Forecasts forecast_arima may return (forecast_period is 3 or more).
DashForecasts == {<<0, 0, 0>>, <<1, 2, 2>>}

\* An element on the page: the Streamlit call and what it shows.
Element(widget, shows) == [widget |-> widget, shows |-> shows]
\* An exception, with the call that raised it.
Exception(origin) == Some([origin |-> origin])

\* Lines 13-21: the title and the global section, with its own try/except.
DashGlobal ==
    /\ dpc = "global"
    /\ \E ok \in BOOLEAN :
        page' = page \o <<Element("st.title", "title"),
                          Element("st.header", "Global COVID-19 Data"),
                          IF ok THEN Element("st.write", "global_data")
                          ELSE Element("st.error", "Error retrieving global data")>>
    /\ dpc' = "country"
    /\ UNCHANGED <<libVars, xaiVars, script>>

\* Lines 23-30: the country section, with its own try/except.
DashCountry ==
    /\ dpc = "country"
    /\ \E country \in Countries, ok \in BOOLEAN :
        /\ script' = [script EXCEPT !.country = country]
        /\ page' = page \o <<Element("st.header", "Country-Specific COVID-19 Data"),
                             IF ok THEN Element("st.write", "country_data")
                             ELSE Element("st.error", "Error retrieving country data")>>
    /\ dpc' = "historical"
    /\ UNCHANGED <<libVars, xaiVars>>

\* Lines 32-39: the header, the slider, then inside the try block
\* get_historical_data and the lookup of timeline.cases.
DashHistorical ==
    /\ dpc = "historical"
    /\ page' = page \o <<Element("st.header", "Historical Data, Forecast, Model Explanation and Narrative Report")>>
    /\ \/ /\ script' = [script EXCEPT !.e = Exception("get_historical_data")]
          /\ dpc' = "except"
       \/ /\ \E cases \in DashTimelines :
                script' = [script EXCEPT !.cases_timeline = cases]
          /\ dpc' = "if_cases"
    /\ UNCHANGED <<libVars, xaiVars>>

\* Lines 41, 84-85: if cases_timeline: ... else: st.warning(...)
DashNoCases ==
    /\ dpc = "if_cases"
    /\ script.cases_timeline = <<>>
    /\ page' = Append(page, Element("st.warning", "No historical cases data available."))
    /\ dpc' = "done"
    /\ UNCHANGED <<libVars, xaiVars, script>>

\* Lines 42-54: the daily deltas in date order, and their chart.
DashDeltas ==
    /\ dpc = "if_cases"
    /\ script.cases_timeline # <<>>
    /\ LET daily_new_cases_dict == compute_daily_new_cases(script.cases_timeline).value
           dates == sorted_dates(DictKeys(daily_new_cases_dict))
           daily_cases_list ==
               [i \in 1..Len(dates) |-> DictGet(daily_new_cases_dict, dates[i])]
       IN  script' = [script EXCEPT !.daily_cases_list = daily_cases_list]
    /\ page' = page \o <<Element("st.subheader", "Historical Daily New Cases"),
                         Element("st.line_chart", "hist_df")>>
    /\ dpc' = "forecast"
    /\ UNCHANGED <<libVars, xaiVars>>

\* Lines 56-71: the forecast; forecast_arima returns or raises.
DashForecast ==
    /\ dpc = "forecast"
    /\ \/ /\ script' = [script EXCEPT !.e = Exception("forecast_arima")]
          /\ page' = Append(page, Element("st.subheader", "Forecast"))
          /\ dpc' = "except"
       \/ /\ \E forecast_values \in DashForecasts :
                script' = [script EXCEPT !.forecast_values = forecast_values,
                                         !.model_fit = Some("model_fit")]
          /\ page' = page \o <<Element("st.subheader", "Forecast"),
                               Element("st.line_chart", "combined_df"),
                               Element("st.write", "forecast_df")>>
          /\ dpc' = "explanation"
    /\ UNCHANGED <<libVars, xaiVars>>

\* Lines 73-77: the explanation; get_arima_explanation returns or raises.
DashExplanation ==
    /\ dpc = "explanation"
    /\ \/ /\ script' = [script EXCEPT !.e = Exception("get_arima_explanation")]
          /\ page' = Append(page, Element("st.subheader", "ARIMA Model Explanation"))
          /\ dpc' = "except"
       \/ /\ page' = page \o <<Element("st.subheader", "ARIMA Model Explanation"),
                               Element("st.text_area", "summary_text"),
                               Element("st.image", "residual_plot")>>
          /\ dpc' = "narrative"
          /\ UNCHANGED script
    /\ UNCHANGED <<libVars, xaiVars>>

\* Lines 79-82: the narrative report.
DashNarrative ==
    /\ dpc = "narrative"
    /\ LET r == generate_narrative_report(script.daily_cases_list,
                                          script.forecast_values)
       IN  IF r.kind = "raise"
           THEN /\ script' = [script EXCEPT !.e = Exception("generate_narrative_report")]
                /\ page' = Append(page, Element("st.subheader", "Narrative Report"))
                /\ dpc' = "except"
           ELSE /\ script' = [script EXCEPT !.report = Some(r.value)]
                /\ page' = page \o <<Element("st.subheader", "Narrative Report"),
                                     Element("st.write", "report")>>
                /\ dpc' = "done"
    /\ UNCHANGED <<libVars, xaiVars>>

\* Lines 87-88: the one handler of the try block, whatever raised.
DashExcept ==
    /\ dpc = "except"
    /\ page' = Append(page, Element("st.error", "Error retrieving historical data"))
    /\ dpc' = "done"
    /\ UNCHANGED <<libVars, xaiVars, script>>

InitDash ==
    /\ LibIdle
    /\ XaiIdle
    /\ dpc = "global"
    /\ page = <<>>
    /\ script = NoScript

NextDash ==
    \/ DashGlobal \/ DashCountry \/ DashHistorical \/ DashNoCases \/ DashDeltas
    \/ DashForecast \/ DashExplanation \/ DashNarrative \/ DashExcept

SpecDash == InitDash /\ [][NextDash]_vars

---------------------------------------------------------------------------
(* The library functions called on inputs drawn from bounded sets. *)

BoundedSeq(S, n) == UNION {[1..k -> S] : k \in 0..n}

\* "12/31/99", "1/1/00", "3/10/21", "12/1/20"
DateLabels == {<<12, 31, 99>>, <<1, 1, 0>>, <<3, 10, 21>>, <<12, 1, 20>>}
Counts == 0..MaxCount
Timelines ==
    {t \in BoundedSeq(DateLabels \X Counts, MaxDates) :
        \A i, j \in 1..Len(t) : t[i][1] = t[j][1] => i = j}
Values == (-MaxVal)..MaxVal
Windows == (-2)..MaxWindow
NarrValues == (-1)..MaxNarrVal

DailyCalls ==
    {[fn |-> "compute_daily_new_cases", a |-> t, b |-> 0] : t \in Timelines}
MovingAverageCalls ==
    {[fn |-> "compute_moving_average", a |-> d, b |-> w] :
        d \in BoundedSeq(Values, MaxLen), w \in Windows}
GrowthCalls ==
    {[fn |-> "compute_average_growth_rate", a |-> d, b |-> 0] :
        d \in BoundedSeq(Values, MaxLen)}
NarrativeCalls ==
    {[fn |-> "generate_narrative_report", a |-> h, b |-> f] :
        h \in BoundedSeq(NarrValues, MaxNarrLen),
        f \in BoundedSeq(NarrValues, MaxNarrLen)}

Init ==
    /\ \/ call \in DailyCalls
       \/ call \in MovingAverageCalls
       \/ call \in GrowthCalls
       \/ call \in NarrativeCalls
    /\ ret = Pending
    /\ XaiIdle
    /\ DashIdle

CallDaily ==
    /\ call.fn = "compute_daily_new_cases" /\ ret = Pending
    /\ ret' = compute_daily_new_cases(call.a)
    /\ UNCHANGED <<call, xaiVars, dashVars>>

CallMovingAverage ==
    /\ call.fn = "compute_moving_average" /\ ret = Pending
    /\ ret' = compute_moving_average(call.a, call.b)
    /\ UNCHANGED <<call, xaiVars, dashVars>>

CallGrowth ==
    /\ call.fn = "compute_average_growth_rate" /\ ret = Pending
    /\ ret' = compute_average_growth_rate(call.a)
    /\ UNCHANGED <<call, xaiVars, dashVars>>

CallNarrative ==
    /\ call.fn = "generate_narrative_report" /\ ret = Pending
    /\ ret' = generate_narrative_report(call.a, call.b)
    /\ UNCHANGED <<call, xaiVars, dashVars>>

Next == CallDaily \/ CallMovingAverage \/ CallGrowth \/ CallNarrative

Spec == Init /\ [][Next]_vars

---------------------------------------------------------------------------
(* Properties of the library functions, stated on the inputs and outcomes   *)
(* alone, apart from the operators above.                                   *)

Returned(fn) == call.fn = fn /\ ret # Pending

\* The calendar position of a label: its year with the %y pivot, month, day.
ChronoDay(label) ==
    (IF label[3] >= 69 THEN 1900 + label[3] ELSE 2000 + label[3]) * 372
        + label[1] * 31 + label[2]

\* Positions of the timeline t with a date before that of position i.
Earlier(t, i) == {k \in 1..Len(t) : ChronoDay(t[k][1]) < ChronoDay(t[i][1])}
\* The position of the date just before that of position i.
Predecessor(t, i) ==
    CHOOSE k \in Earlier(t, i) :
        \A m \in Earlier(t, i) : ChronoDay(t[m][1]) <= ChronoDay(t[k][1])
EarliestPos(t) == CHOOSE i \in 1..Len(t) : Earlier(t, i) = {}
LatestPos(t) ==
    CHOOSE i \in 1..Len(t) :
        \A k \in 1..Len(t) : ChronoDay(t[k][1]) <= ChronoDay(t[i][1])

\* The values found under key k in the dict d.
ValuesAt(d, k) == {d[j][2] : j \in {m \in 1..Len(d) : d[m][1] = k}}

\* s[lo] + ... + s[hi]
RECURSIVE Total(_, _, _)
Total(s, lo, hi) == IF lo > hi THEN 0 ELSE s[hi] + Total(s, lo, hi - 1)

RECURSIVE LaterDeltas(_, _, _)
LaterDeltas(out, skip, n) ==
    IF n = 0 THEN 0
    ELSE (IF out[n][1] = skip THEN 0 ELSE out[n][2]) + LaterDeltas(out, skip, n - 1)

\* C2: for a timeline of two dates or more, the daily deltas without the
\* placeholder of the earliest date add up to the latest cumulative count
\* minus the earliest.
C2_Telescope ==
    (Returned("compute_daily_new_cases") /\ Len(call.a) >= 2) =>
        LET t == call.a
        IN  /\ ret.kind = "return"
            /\ LaterDeltas(ret.value, t[EarliestPos(t)][1], Len(ret.value))
                   = t[LatestPos(t)][2] - t[EarliestPos(t)][2]

\* Three dates, not inserted in order, with a rise and a fall between them.
C2_Witness ==
    /\ Returned("compute_daily_new_cases")
    /\ Len(call.a) = 3
    /\ EarliestPos(call.a) = 3
    /\ LatestPos(call.a) = 1
    /\ call.a[1][2] # call.a[3][2]
    /\ call.a[2][2] > call.a[1][2]

\* C3: for a window of 1 or more, compute_moving_average returns a list as
\* long as its input, None below index window-1 and from there on the exact
\* mean of the window values ending at the index; so all None for a window
\* longer than the input, and the input itself for a window of 1.
C3_MovingAverage ==
    (Returned("compute_moving_average") /\ call.b >= 1) =>
        LET data == call.a
            window == call.b
            out == ret.value
        IN  /\ ret.kind = "return"
            /\ Len(out) = Len(data)
            /\ \A i \in 0..(Len(data) - 1) :
                IF i < window - 1
                THEN out[i + 1] = None
                ELSE /\ out[i + 1] # None
                     /\ out[i + 1][1][2] # 0
                     /\ out[i + 1][1][1] * window
                            = out[i + 1][1][2] * Total(data, i - window + 2, i + 1)
            /\ window > Len(data) => \A j \in 1..Len(out) : out[j] = None
            /\ window = 1 =>
                \A j \in 1..Len(out) :
                    out[j] # None /\ out[j][1][1] = data[j] * out[j][1][2]

\* A window of 2 over three values: one None, then two means, not all equal.
C3_Witness ==
    /\ Returned("compute_moving_average")
    /\ call.b = 2
    /\ Len(call.a) = 3
    /\ ret.kind = "return"
    /\ ret.value[1] = None
    /\ ret.value[2] # None
    /\ ret.value[3] # None
    /\ ret.value[2] # ret.value[3]

\* The pairs (i, i+1) of d whose earlier value is positive.
Retained(d) == {i \in 1..(Len(d) - 1) : d[i] > 0}

\* The product of the earlier values of the retained pairs up to position n,
\* a common denominator of their ratios.
RECURSIVE BaseProduct(_, _)
BaseProduct(d, n) ==
    IF n = 0 THEN 1
    ELSE (IF n \in Retained(d) THEN d[n] ELSE 1) * BaseProduct(d, n - 1)

\* The sum of the retained ratios (d[i+1] - d[i]) / d[i], times p.
RECURSIVE ScaledRatios(_, _, _)
ScaledRatios(d, p, n) ==
    IF n = 0 THEN 0
    ELSE (IF n \in Retained(d) THEN (d[n + 1] - d[n]) * (p \div d[n]) ELSE 0)
             + ScaledRatios(d, p, n - 1)

\* C4: compute_average_growth_rate returns the mean of (curr - prev) / prev
\* over the consecutive pairs with prev > 0, and 0.0 when there is none.
C4_GrowthRate ==
    Returned("compute_average_growth_rate") =>
        LET d == call.a
            n == Len(d) - 1
            p == BaseProduct(d, IF n < 0 THEN 0 ELSE n)
        IN  /\ ret.kind = "return"
            /\ ret.value[2] # 0
            /\ IF Retained(d) = {}
               THEN ret.value = <<0, 1>>
               ELSE ret.value[1] * Cardinality(Retained(d)) * p
                        = ret.value[2] * ScaledRatios(d, p, n)

\* A series with one retained pair and one skipped pair for a negative base.
C4_Witness ==
    /\ Returned("compute_average_growth_rate")
    /\ Len(call.a) = 3
    /\ call.a[1] < 0
    /\ call.a[2] > 0
    /\ Cardinality(Retained(call.a)) = 1
    /\ ret.value[1] # 0

TrendLabels == {"increasing", "decreasing", "stable"}
LabelsIn(text) == {text[i] : i \in 1..Len(text)} \cap TrendLabels
Suffix(text, n) == SubSeq(text, Len(text) - n + 1, Len(text))

\* C5: for non-empty inputs the report is labelled increasing iff the mean
\* of the forecast exceeds the historical mean, decreasing iff it is below,
\* stable iff they are equal; no other label occurs in the text, and the
\* text ends with the remark of that label.
C5_TrendClassification ==
    (Returned("generate_narrative_report") /\ call.a # <<>> /\ call.b # <<>>) =>
        LET h == call.a
            f == call.b
            \* mean(f) - mean(h), scaled by both lengths
            diff == Total(f, 1, Len(f)) * Len(h) - Total(h, 1, Len(h)) * Len(f)
            label == IF diff > 0 THEN "increasing"
                     ELSE IF diff < 0 THEN "decreasing" ELSE "stable"
            text == ret.value.text
        IN  /\ ret.kind = "return"
            /\ LabelsIn(text) = {label}
            /\ label = "increasing" =>
                Suffix(text, 10) =
                    <<"This", "increase", "may", "require", "proactive",
                      "measures", "to", "mitigate", "further", "spread.">>
            /\ label = "decreasing" =>
                Suffix(text, 10) =
                    <<"The", "decreasing", "trend", "indicates", "that",
                      "current", "measures", "might", "be", "effective.">>
            /\ label = "stable" =>
                Suffix(text, 9) =
                    <<"The", "situation", "appears", "to", "be", "stable",
                      "at", "the", "moment.">>

\* Equal means from different series: a stable report.
C5_Witness ==
    /\ Returned("generate_narrative_report")
    /\ Len(call.a) = 2 /\ Len(call.b) = 1
    /\ call.a[1] # call.a[2]
    /\ call.a[1] + call.a[2] = 2 * call.b[1]
    /\ ret.kind = "return"
    /\ "stable" \in LabelsIn(ret.value.text)

\* C7: generate_narrative_report fails when the historical deltas or the
\* forecast are empty, and returns no report then. The claim names the
\* failure EmptyInputError; any exception is taken for it here.
C7_EmptyInputError ==
    (Returned("generate_narrative_report") /\ (call.a = <<>> \/ call.b = <<>>)) =>
        ret.kind = "raise"

\* C8: compute_moving_average fails for a window of 0 or less instead of
\* returning numeric entries. The claim names the failure
\* InvalidWindowError; any exception is taken for it here, and the empty
\* input, which has no entries to return, is left aside.
C8_InvalidWindowError ==
    (Returned("compute_moving_average") /\ call.b <= 0 /\ call.a # <<>>) =>
        ret.kind = "raise"

\* C9: compute_daily_new_cases fails on an empty mapping and returns
\* nothing, not even an empty result. The claim names the failure
\* EmptyTimelineError; any exception is taken for it here.
C9_EmptyTimelineError ==
    (Returned("compute_daily_new_cases") /\ call.a = <<>>) =>
        ret.kind = "raise"

\* C6: in every interleaving of two get_arima_explanation calls, each call
\* lays out and saves only the figure it created, so the image it returns
\* shows its own residuals, and its figure is closed when it returns.
C6_ScopedFigures ==
    \A c \in XaiCalls :
        /\ figure[c].tight_by \subseteq {c}
        /\ pcx[c] = "done" =>
            /\ local[c].residual_plot[1].base64 # <<>>
            /\ local[c].residual_plot[1].base64[1].fig = c
            /\ local[c].residual_plot[1].base64[1].lines = <<model_fit[c].resid>>
            /\ \A i \in 1..Len(Gcf) : Gcf[i].fig # c

Shown(widget, shows) == \E i \in 1..Len(page) : page[i] = Element(widget, shows)
Failed(origin) == script.e # <<>> /\ script.e[1].origin = origin

\* C10: in a finished run a failed stage is reported on the page, what was
\* displayed before the failure stays displayed, and a failure of the
\* explanation does not keep the narrative, which needs only the deltas and
\* the forecast, from running.
C10_ScopedStageFailure ==
    dpc = "done" =>
        /\ script.e # <<>> =>
             \E i \in 1..Len(page) : page[i].widget \in {"st.error", "st.warning"}
        /\ (Failed("forecast_arima") \/ Failed("get_arima_explanation")) =>
             Shown("st.line_chart", "hist_df")
        /\ Failed("get_arima_explanation") =>
             Shown("st.write", "forecast_df") /\ Shown("st.write", "report")

====
